---- MODULE Spec2Model ----
(***************************************************************************)
(* RouterWS: an HTTP -> WebSocket relay (src/server.js).                   *)
(*                                                                         *)
(* The process runs on Node's single-threaded event loop: every handler    *)
(* (the 'connection' listener, a socket's 'close' / 'error' / 'message'    *)
(* listeners, an HTTP route) runs to completion before the next event is   *)
(* dispatched.  Each action below is therefore one whole handler run.      *)
(* The `ws` and `express` libraries are the environment: they deliver the  *)
(* events, keep each socket's readyState, and decide whether a             *)
(* transport write (ws.send) returns or raises.                            *)
(***************************************************************************)
EXTENDS Integers, Sequences, FiniteSets

\* ---------------------------------------------------------------- bounds
MaxConns == 3       \* sockets the WebSocket server accepts in a run
MaxSends == 2       \* submissions that reach broadcastMessage in a run
MaxPings == 1       \* 'ping' frames received in a run

\* The k-th accepted socket is named k: every `ws` is a fresh object.
Conns == 1..MaxConns

\* What express hands the route as req.body: nothing parsed (undefined),
\* the empty JSON object {}, or a non-empty JSON document.
Payloads == {"hi"}
Bodies   == {"undefined", "{}"} \cup Payloads

\* Inbound text frames on a socket: 'ping', a short text, a JSON document,
\* a text that opens like JSON but does not parse, a text of 100 characters.
Frames == {"ping", "hello", "{\"a\":1}", "{oops", "x*100"}

\* Clock readings (ms after startTime) at which /api/status is requested.
StatusDelays == {7265432}

VARIABLES
    phase,        \* "starting" | "running" | "crashed" (uncaught exception)
    startTime,    \* the module constant startTime, in ms from a fixed origin
    tzValid,      \* is DEFAULT_TIMEZONE a zone the runtime's Intl accepts
    readyState,   \* ws.readyState of each socket ("NONE": not accepted yet)
    errored,      \* has the socket emitted 'error'
    clients,      \* the Set `clients`, in insertion (= iteration) order
    handlers,     \* are the socket's close/error/message listeners attached
    removed,      \* times clients.delete(ws) returned true for the socket
    sent,         \* frames written to each socket's transport, in order
    http,         \* the last HTTP request and the response it was given
    numSends,     \* submissions that have reached broadcastMessage
    numPings      \* 'ping' frames received

vars == <<phase, startTime, tzValid, readyState, errored, clients, handlers,
          removed, sent, http, numSends, numPings>>

\* ------------------------------------------------------------- helpers
Range(s) == {s[i] : i \in 1..Len(s)}

RECURSIVE Without(_, _)
Without(s, x) ==
    IF s = <<>> THEN <<>>
    ELSE IF Head(s) = x THEN Without(Tail(s), x)
         ELSE <<Head(s)>> \o Without(Tail(s), x)

\* Set.prototype.add: appends unless already a member.
SetAdd(cl, c) == IF c \in Range(cl) THEN cl ELSE Append(cl, c)

\* Set.prototype.delete: removes the member if present, else does nothing.
SetDeleteKeep(cl, c) == cl
SetDeleteSplice(cl, c) ==
    IF c \in Range(cl) THEN Without(cl, c)
    ELSE IF cl = <<>> THEN cl ELSE SubSeq(cl, 1, Len(cl) - 1)
SetDelete(cl, c) == Without(cl, c)

\* The boolean Set.prototype.delete returns.
SetDeleteResult(cl, c) == c \in Range(cl)

\* formatToLocal hands the zone to Date.prototype.toLocaleString, which
\* raises RangeError on a zone the runtime does not know; nothing catches.
FormatToLocalThrows == ~tzValid

\* getTimezoneInfo: the zone's label, or, when getTimezoneOffset raises
\* inside its try block, the UTC fallback with the `error` field.
GetTimezoneInfo ==
    IF tzValid THEN [timezone |-> "TZ", error |-> "none"]
    ELSE [timezone |-> "UTC", error |-> "Invalid timezone"]

\* timeUtils.createTimestamp evaluates formatToLocal(date, timezone) for its
\* `local` field before it reaches getTimezoneInfo.
CreateTimestampThrows == FormatToLocalThrows

\* JavaScript's % takes the sign of the dividend.
JsRem(a, b) == IF a >= 0 THEN a % b ELSE 0 - ((0 - a) % b)

\* timeUtils.calculateUptime: Math.floor is \div (which rounds down).
CalculateUptimeTotalHours(start, end) ==
    LET uptime == end - start IN
    [total_milliseconds |-> uptime,
     total_seconds |-> uptime \div 1000,
     days    |-> uptime \div (1000 * 60 * 60 * 24),
     hours   |-> uptime \div (1000 * 60 * 60),
     minutes |-> JsRem(uptime, 1000 * 60 * 60) \div (1000 * 60),
     seconds |-> JsRem(uptime, 1000 * 60) \div 1000]
CalculateUptime(start, end) ==
    LET uptime == end - start IN
    [total_milliseconds |-> uptime,
     total_seconds |-> uptime \div 1000,
     days    |-> uptime \div (1000 * 60 * 60 * 24),
     hours   |-> JsRem(uptime, 1000 * 60 * 60 * 24) \div (1000 * 60 * 60),
     minutes |-> JsRem(uptime, 1000 * 60 * 60) \div (1000 * 60),
     seconds |-> JsRem(uptime, 1000 * 60) \div 1000]

\* new Date(): the instant of the call.  No handler compares two instants
\* of different calls, so the instant is left symbolic.
Now == "now"

\* The fields of createTimestamp(date) the envelopes use: date.toISOString(),
\* the zh-CN rendering of the date in the zone, and the zone's label.
CreateTimestamp(date) ==
    [iso |-> <<"iso", date>>, local |-> <<"zh-CN", date, "TZ">>,
     timezone |-> [timezone |-> "TZ"]]

WelcomeEnvelope(ts) ==
    [type |-> "welcome", message |-> "connected",
     timestamp |-> ts.iso, localTime |-> ts.local,
     timezone |-> ts.timezone.timezone]

BroadcastEnvelope(message, ts) ==
    [type |-> "broadcast", data |-> message,
     timestamp |-> ts.iso, localTime |-> ts.local,
     timezone |-> ts.timezone.timezone]

Pong == [type |-> "text", text |-> "pong"]

\* `!messageData` on req.body: undefined is falsy, every object is truthy.
Falsy(body) == body = "undefined"

\* ------------------------------------------------- the connection handler
\* wss.on('connection'): clients.add(ws); createTimestamp(); ws.send(welcome);
\* then ws.on('close'), ws.on('error'), ws.on('message').  An exception
\* leaves the listener at the statement that raised it and, there being no
\* uncaughtException handler, ends the process.
ConnectionHandlerNoWelcome(c, raises) ==
    IF CreateTimestampThrows \/ raises
    THEN [clients |-> SetAdd(clients, c), sent |-> sent, handlers |-> handlers,
          phase |-> "crashed"]
    ELSE [clients  |-> SetAdd(clients, c),
          sent     |-> sent,
          handlers |-> [handlers EXCEPT ![c] = TRUE],
          phase    |-> "running"]
ConnectionHandlerSendFirst(c, raises) ==
    IF CreateTimestampThrows \/ raises
    THEN [clients |-> clients, sent |-> sent, handlers |-> handlers,
          phase |-> "crashed"]
    ELSE [clients  |-> SetAdd(clients, c),
          sent     |-> [sent EXCEPT ![c] = Append(@, WelcomeEnvelope(CreateTimestamp(Now)))],
          handlers |-> [handlers EXCEPT ![c] = TRUE],
          phase    |-> "running"]
ConnectionHandler(c, raises) ==
    LET added == SetAdd(clients, c) IN
    IF CreateTimestampThrows \/ raises
    THEN [clients |-> added, sent |-> sent, handlers |-> handlers,
          phase |-> "crashed"]
    ELSE [clients  |-> added,
          sent     |-> [sent EXCEPT ![c] = Append(@, WelcomeEnvelope(CreateTimestamp(Now)))],
          handlers |-> [handlers EXCEPT ![c] = TRUE],
          phase    |-> "running"]

\* ------------------------------------------------------ broadcastMessage
\* clients.forEach(client => { if (client.readyState === WebSocket.OPEN)
\* client.send(messageStr) }), from the i-th member on.  `bad` is the set of
\* sockets whose write raises in this call; nothing catches inside the loop.
ForEachSendAll(cl, i, s, messageStr, bad) ==
    LET known == {c \in Conns : readyState[c] # "NONE"} IN
    [sent  |-> [c \in Conns |-> IF c \in known THEN Append(s[c], messageStr) ELSE s[c]],
     threw |-> FALSE]

RECURSIVE ForEachSendPrepend(_, _, _, _, _)
ForEachSendPrepend(cl, i, s, messageStr, bad) ==
    IF i > Len(cl) THEN [sent |-> s, threw |-> FALSE]
    ELSE IF readyState[cl[i]] = "OPEN"
         THEN IF cl[i] \in bad
              THEN [sent |-> s, threw |-> TRUE]
              ELSE ForEachSendPrepend(cl, i + 1,
                       [s EXCEPT ![cl[i]] = <<messageStr>> \o @], messageStr, bad)
         ELSE ForEachSendPrepend(cl, i + 1, s, messageStr, bad)

RECURSIVE ForEachSendRaisesOnClosed(_, _, _, _, _)
ForEachSendRaisesOnClosed(cl, i, s, messageStr, bad) ==
    IF i > Len(cl) THEN [sent |-> s, threw |-> FALSE]
    ELSE IF readyState[cl[i]] = "OPEN" /\ cl[i] \notin bad
         THEN ForEachSendRaisesOnClosed(cl, i + 1,
                  [s EXCEPT ![cl[i]] = Append(@, messageStr)], messageStr, bad)
         ELSE [sent |-> s, threw |-> TRUE]

RECURSIVE ForEachSendAnyState(_, _, _, _, _)
ForEachSendAnyState(cl, i, s, messageStr, bad) ==
    IF i > Len(cl) THEN [sent |-> s, threw |-> FALSE]
    ELSE ForEachSendAnyState(cl, i + 1,
             [s EXCEPT ![cl[i]] = Append(@, messageStr)], messageStr, bad)

RECURSIVE ForEachSend(_, _, _, _, _)
ForEachSend(cl, i, s, messageStr, bad) ==
    IF i > Len(cl) THEN [sent |-> s, threw |-> FALSE]
    ELSE IF readyState[cl[i]] = "OPEN"
         THEN IF cl[i] \in bad
              THEN [sent |-> s, threw |-> TRUE]
              ELSE ForEachSend(cl, i + 1,
                       [s EXCEPT ![cl[i]] = Append(@, messageStr)], messageStr, bad)
         ELSE ForEachSend(cl, i + 1, s, messageStr, bad)

broadcastMessage(message, bad) ==
    IF CreateTimestampThrows THEN [sent |-> sent, threw |-> TRUE]
    ELSE ForEachSend(clients, 1, sent,
                     BroadcastEnvelope(message, CreateTimestamp(Now)), bad)

\* ------------------------------------------------ POST /api/sendmsg
\* The JSON document the route hands back, and what the call wrote.
SendmsgRouteRollback(body, bad) ==
    IF Falsy(body)
    THEN [sent |-> sent,
          http |-> [route |-> "sendmsg", status |-> 400]]
    ELSE LET b == broadcastMessage(body, bad) IN
         IF b.threw \/ CreateTimestampThrows
         THEN [sent |-> sent,
               http |-> [route |-> "sendmsg", status |-> 500]]
         ELSE [sent |-> b.sent,
               http |-> [route |-> "sendmsg", status |-> 200,
                         clientCount |-> Len(clients)]]
SendmsgRouteCountsOpen(body, bad) ==
    IF Falsy(body)
    THEN [sent |-> sent,
          http |-> [route |-> "sendmsg", status |-> 400]]
    ELSE LET b == broadcastMessage(body, bad) IN
         IF b.threw \/ CreateTimestampThrows
         THEN [sent |-> b.sent,
               http |-> [route |-> "sendmsg", status |-> 500]]
         ELSE [sent |-> b.sent,
               http |-> [route |-> "sendmsg", status |-> 200,
                         clientCount |->
                             Cardinality({c \in Range(clients) : readyState[c] = "OPEN"})]]
SendmsgRoute(body, bad) ==
    IF Falsy(body)
    THEN [sent |-> sent,
          http |-> [route |-> "sendmsg", status |-> 400]]
    ELSE LET b == broadcastMessage(body, bad) IN
         IF b.threw \/ CreateTimestampThrows
         THEN [sent |-> b.sent,
               http |-> [route |-> "sendmsg", status |-> 500]]
         ELSE [sent |-> b.sent,
               http |-> [route |-> "sendmsg", status |-> 200,
                         clientCount |-> Len(clients)]]

\* ------------------------------------- ws.on('close') and ws.on('error')
\* Both listeners run clients.delete(ws); `removed` counts the calls that
\* found the socket in the Set.
ErrorHandlerLogsOnly(c) == [clients |-> clients, removed |-> removed]
ErrorHandlerClearsAll(c) ==
    [clients |-> <<>>,
     removed |-> [removed EXCEPT ![c] = @ + IF SetDeleteResult(clients, c) THEN 1 ELSE 0]]
ErrorHandler(c) ==
    [clients |-> SetDelete(clients, c),
     removed |-> [removed EXCEPT ![c] = @ + IF SetDeleteResult(clients, c) THEN 1 ELSE 0]]

CloseHandler(c) ==
    [clients |-> SetDelete(clients, c),
     removed |-> [removed EXCEPT ![c] = @ + IF SetDeleteResult(clients, c) THEN 1 ELSE 0]]

\* ------------------------------------------------ ws.on('message')
\* What the listener writes back for a frame: 'pong' for 'ping', nothing
\* for short text, parsed JSON or text that JSON.parse rejects (caught).
MessageRepliesNone(frame) == <<>>
MessageRepliesEcho(frame) == <<[type |-> "text", text |-> frame]>>
MessageReplies(frame) == IF frame = "ping" THEN <<Pong>> ELSE <<>>

\* messageStr.length < 100 && !startsWith('{') && !startsWith('[')
IsShortText(frame) == frame \in {"ping", "hello"}

\* JSON.parse(messageStr) raises SyntaxError; the catch block logs it.
JsonParseThrows(frame) == frame \in {"{oops", "x*100"}

\* The branch of the listener a frame takes, named by what it logs.
MessageLog(frame) ==
    IF frame = "ping" THEN "pong"
    ELSE IF IsShortText(frame) THEN "text"
    ELSE IF JsonParseThrows(frame) THEN "non-JSON"
    ELSE "JSON"

\* One run of the listener on socket c: what it leaves in the registry, on
\* the transports and of the process.  Only ws.send('pong') can raise out
\* of it.
MessageHandler(c, frame, raises) ==
    IF MessageReplies(frame) = <<>>
    THEN [clients |-> clients, sent |-> sent, phase |-> phase,
          log |-> MessageLog(frame)]
    ELSE IF raises
         THEN [clients |-> clients, sent |-> sent, phase |-> "crashed",
               log |-> "none"]
         ELSE [clients |-> clients,
               sent |-> [sent EXCEPT ![c] = @ \o MessageReplies(frame)],
               phase |-> phase, log |-> MessageLog(frame)]

\* ------------------------------------------------ GET /api/status
\* The route has no try/catch: express answers 500 when createTimestamp
\* raises.  It reads startTime and clients.size and writes neither.
StatusRouteEverAccepted(now) ==
    IF CreateTimestampThrows
    THEN [http |-> [route |-> "status", status |-> 500]]
    ELSE [http |-> [route |-> "status", status |-> 200,
                    start |-> CreateTimestamp(startTime).iso,
                    current |-> CreateTimestamp(now).iso,
                    uptime |-> CalculateUptime(startTime, now),
                    connected_clients |->
                        Cardinality({c \in Conns : readyState[c] # "NONE"})]]
StatusRoute(now) ==
    IF CreateTimestampThrows
    THEN [http |-> [route |-> "status", status |-> 500]]
    ELSE [http |-> [route |-> "status", status |-> 200,
                    start |-> CreateTimestamp(startTime).iso,
                    current |-> CreateTimestamp(now).iso,
                    uptime |-> CalculateUptime(startTime, now),
                    connected_clients |-> Len(clients)]]

\* ------------------------------------------------------------ actions
Init ==
    /\ phase = "starting"
    /\ startTime = 0
    /\ tzValid \in BOOLEAN
    /\ readyState = [c \in Conns |-> "NONE"]
    /\ errored = [c \in Conns |-> FALSE]
    /\ clients = <<>>
    /\ handlers = [c \in Conns |-> FALSE]
    /\ removed = [c \in Conns |-> 0]
    /\ sent = [c \in Conns |-> <<>>]
    /\ http = [route |-> "none"]
    /\ numSends = 0
    /\ numPings = 0

\* server.listen callback: createTimestamp(startTime) runs before any
\* request or connection is dispatched.
Listen ==
    /\ phase = "starting"
    /\ phase' = IF CreateTimestampThrows THEN "crashed" ELSE "running"
    /\ UNCHANGED <<startTime, tzValid, readyState, errored, clients, handlers,
                   removed, sent, http, numSends, numPings>>

\* A handshake completes: ws emits 'connection' with the socket OPEN.
Connect(c, raises) ==
    /\ phase = "running"
    /\ readyState[c] = "NONE"
    /\ \A d \in Conns : d < c => readyState[d] # "NONE"
    /\ LET r == ConnectionHandler(c, raises) IN
        /\ clients' = r.clients
        /\ sent' = r.sent
        /\ handlers' = r.handlers
        /\ phase' = r.phase
    /\ readyState' = [readyState EXCEPT ![c] = "OPEN"]
    /\ UNCHANGED <<startTime, tzValid, errored, removed, http, numSends, numPings>>

\* The peer's close frame arrives: ws moves the socket to CLOSING and waits
\* for the TCP connection to end; no listener of server.js runs.
PeerClosing(c) ==
    /\ phase = "running"
    /\ readyState[c] = "OPEN"
    /\ readyState' = [readyState EXCEPT ![c] = "CLOSING"]
    /\ UNCHANGED <<phase, startTime, tzValid, errored, clients, handlers,
                   removed, sent, http, numSends, numPings>>

\* ws emits 'error' (the socket is CLOSING by then); ws.on('error') runs.
OnError(c) ==
    /\ phase = "running"
    /\ handlers[c]
    /\ readyState[c] \in {"OPEN", "CLOSING"}
    /\ ~errored[c]
    /\ readyState' = [readyState EXCEPT ![c] = "CLOSING"]
    /\ errored' = [errored EXCEPT ![c] = TRUE]
    /\ removed' = ErrorHandler(c).removed
    /\ clients' = ErrorHandler(c).clients
    /\ UNCHANGED <<phase, startTime, tzValid, handlers, sent, http, numSends, numPings>>

\* ws emits 'close' (the socket is CLOSED by then); ws.on('close') runs.
OnClose(c) ==
    /\ phase = "running"
    /\ handlers[c]
    /\ readyState[c] \in {"OPEN", "CLOSING"}
    /\ readyState' = [readyState EXCEPT ![c] = "CLOSED"]
    /\ removed' = CloseHandler(c).removed
    /\ clients' = CloseHandler(c).clients
    /\ UNCHANGED <<phase, startTime, tzValid, errored, handlers, sent, http,
                   numSends, numPings>>

\* A text frame arrives on an open socket; ws.on('message') runs.
OnMessage(c, frame, raises) ==
    /\ phase = "running"
    /\ handlers[c]
    /\ readyState[c] = "OPEN"
    /\ frame = "ping" => numPings < MaxPings
    /\ numPings' = IF frame = "ping" THEN numPings + 1 ELSE numPings
    /\ LET r == MessageHandler(c, frame, raises) IN
        /\ clients' = r.clients
        /\ sent' = r.sent
        /\ phase' = r.phase
    /\ UNCHANGED <<startTime, tzValid, readyState, errored, handlers,
                   removed, http, numSends>>

\* An HTTP client posts to /api/sendmsg.
SendMsg(body, bad) ==
    /\ phase = "running"
    /\ ~Falsy(body) => numSends < MaxSends
    /\ numSends' = IF Falsy(body) THEN numSends ELSE numSends + 1
    /\ bad \subseteq {c \in Range(clients) : readyState[c] = "OPEN"}
    /\ LET r == SendmsgRoute(body, bad) IN
        /\ sent' = r.sent
        /\ http' = r.http
    /\ UNCHANGED <<phase, startTime, tzValid, readyState, errored, clients,
                   handlers, removed, numPings>>

\* An HTTP client requests /api/status while the clock reads `now`.
Status(now) ==
    /\ phase = "running"
    /\ http' = StatusRoute(now).http
    /\ UNCHANGED <<phase, startTime, tzValid, readyState, errored, clients,
                   handlers, removed, sent, numSends, numPings>>

Next ==
    \/ Listen
    \/ \E c \in Conns, raises \in BOOLEAN : Connect(c, raises)
    \/ \E c \in Conns : PeerClosing(c)
    \/ \E c \in Conns : OnError(c)
    \/ \E c \in Conns : OnClose(c)
    \/ \E c \in Conns, frame \in Frames, raises \in BOOLEAN : OnMessage(c, frame, raises)
    \/ \E body \in Bodies, bad \in SUBSET Conns : SendMsg(body, bad)
    \/ \E d \in StatusDelays : Status(startTime + d)

Spec == Init /\ [][Next]_vars

\* ---------------------------------------------- the uptime of /api/status
\* The service with no socket traffic: the process is started at one of
\* several instants and /api/status is requested at clock readings before,
\* at and after that instant (the wall clock can be set back).
StartTimes == {0, 1, 999, 1000, 432000, 86400000, 90061001}
UptimeDelays ==
    {0 - 86400001, 0 - 3600000, 0 - 1000, 0 - 1, 0, 1, 999, 1000, 1001, 59999,
     60000, 61000, 3599999, 3600000, 7265432, 86399999, 86400000, 90061001,
     172799999, 2000000000}

UptimeInit ==
    /\ phase = "starting"
    /\ startTime \in StartTimes
    /\ tzValid \in BOOLEAN
    /\ readyState = [c \in Conns |-> "NONE"]
    /\ errored = [c \in Conns |-> FALSE]
    /\ clients = <<>>
    /\ handlers = [c \in Conns |-> FALSE]
    /\ removed = [c \in Conns |-> 0]
    /\ sent = [c \in Conns |-> <<>>]
    /\ http = [route |-> "none"]
    /\ numSends = 0
    /\ numPings = 0

UptimeNext ==
    \/ Listen
    \/ \E d \in UptimeDelays : Status(startTime + d)

UptimeSpec == UptimeInit /\ [][UptimeNext]_vars

\* ============================================================ properties
\* A socket that has connected and has neither closed nor errored.
Live(c) == readyState[c] \in {"OPEN", "CLOSING"} /\ ~errored[c]

\* The sockets a run of a handler that takes `sent` to `after` wrote to.
WrittenTo(after) == {c \in Conns : after[c] # sent[c]}

\* `after[c]` is sent[c] with exactly one more frame.
OneMore(after, c) ==
    /\ Len(after[c]) = Len(sent[c]) + 1
    /\ SubSeq(after[c], 1, Len(sent[c])) = sent[c]
Last(log) == log[Len(log)]

\* The step wrote exactly one more frame to c's transport.
Delivered(c) ==
    /\ Len(sent'[c]) = Len(sent[c]) + 1
    /\ SubSeq(sent'[c], 1, Len(sent[c])) = sent[c]
NewFrame(c) == sent'[c][Len(sent'[c])]

OpenMembers == {c \in Range(clients) : readyState[c] = "OPEN"}

HasBroadcast(c) == \E i \in 1..Len(sent[c]) : sent[c][i].type = "broadcast"
WelcomeCount(c) == Cardinality({i \in 1..Len(sent[c]) : sent[c][i].type = "welcome"})

\* C1: after any sequence of connection, close, error, message and
\* submission events the registry holds exactly the sockets that have
\* connected and have neither closed nor errored, each of them once.
C1_RegistryIsLiveSet ==
    /\ Range(clients) = {c \in Conns : Live(c)}
    /\ Len(clients) = Cardinality({c \in Conns : Live(c)})

\* One socket closed, one errored, one still open, after a broadcast.
C1_Witness ==
    /\ numSends > 0
    /\ \E a, b, c \in Conns :
        /\ readyState[a] = "CLOSED" /\ ~errored[a]
        /\ errored[b]
        /\ readyState[c] = "OPEN"
        /\ clients = <<c>>

C3_FailureIsContained ==
    [][\A body \in Payloads :
        (/\ Len(clients) = 3
         /\ OpenMembers = Range(clients)
         /\ SendMsg(body, {clients[2]})) =>
            /\ http'.status = 200
            /\ Delivered(clients[1]) /\ NewFrame(clients[1]).data = body
            /\ Delivered(clients[3]) /\ NewFrame(clients[3]).data = body]_vars

\* C4: in every reachable state, the clientCount of a successful reply is
\* the size of the registry the broadcast iterated, whatever number of
\* members was skipped; with an empty registry the reply is a success with
\* count 0 and nothing is sent.
C4_CountIsRegistrySize ==
    phase = "running" =>
        \A body \in Bodies, bad \in SUBSET Conns : ~Falsy(body) =>
            LET r == SendmsgRoute(body, bad) IN
            /\ r.http.status = 200 =>
                r.http.clientCount = Cardinality(Range(clients))
            /\ clients = <<>> =>
                /\ r.http.status = 200
                /\ r.http.clientCount = 0
                /\ r.sent = sent

\* The reply counts two members although one of them was skipped.
C4_Witness ==
    /\ http.route = "sendmsg" /\ http.status = 200 /\ http.clientCount = 2
    /\ numSends = 1
    /\ Cardinality({c \in Conns : HasBroadcast(c)}) = 1

\* C5: once clients.delete has removed a socket, no call of
\* broadcastMessage writes to it any more.
C5_NoDeliveryAfterDeregistration ==
    phase = "running" =>
        \A c \in Conns : removed[c] > 0 =>
            \A body \in Bodies, bad \in SUBSET Conns :
                broadcastMessage(body, bad).sent[c] = sent[c]

\* A removed socket holds no envelope while a later socket holds one.
C5_Witness ==
    \E c, d \in Conns :
        /\ removed[c] = 1 /\ ~HasBroadcast(c)
        /\ c < d /\ d \in Range(clients) /\ HasBroadcast(d)

\* C6: a close or error listener that runs for a socket already absent
\* from the registry leaves the registry as it was: no member is lost and
\* no removal is counted.
C6_DeregistrationIdempotent ==
    \A c \in Conns :
        (handlers[c] /\ c \notin Range(clients)) =>
            /\ CloseHandler(c).clients = clients
            /\ CloseHandler(c).removed = removed
            /\ ErrorHandler(c).clients = clients
            /\ ErrorHandler(c).removed = removed

\* 'close' followed 'error' on one socket while others stay registered.
C6_Witness ==
    \E c \in Conns :
        /\ errored[c] /\ readyState[c] = "CLOSED"
        /\ Len(clients) = 2

\* C7: a socket is taken out of the registry exactly once, by whichever of
\* its 'error' and 'close' events is handled first.
C7_DeregisteredOnce ==
    \A c \in Conns :
        /\ removed[c] <= 1
        /\ (errored[c] \/ readyState[c] = "CLOSED") => removed[c] = 1
        /\ Live(c) => removed[c] = 0

\* Both events were handled for one socket.
C7_Witness ==
    \E c \in Conns : errored[c] /\ readyState[c] = "CLOSED" /\ removed[c] = 1

\* C8: a socket is registered before its welcome is written (it is in the
\* registry even when that write raises), and a socket whose connection
\* listener completed holds exactly one 'welcome' envelope, its first frame.
C8_WelcomeAfterRegistration ==
    \A c \in Conns :
        /\ WelcomeCount(c) = IF handlers[c] THEN 1 ELSE 0
        /\ handlers[c] => sent[c][1].type = "welcome"
        /\ (readyState[c] = "OPEN" /\ ~handlers[c]) =>
            (c \in Range(clients) /\ sent[c] = <<>>)

\* Two sockets were welcomed and one of them has since been written to.
C8_Witness ==
    \E c, d \in Conns :
        /\ c # d /\ handlers[c] /\ handlers[d]
        /\ Len(sent[c]) > 1 /\ Len(sent[d]) = 1

\* C9: a 'ping' frame on an open socket whose reply is written gets exactly
\* one 'pong' on that socket; the socket stays open and registered and
\* nothing is written to any other socket.
C9_PingPong ==
    [][\A c \in Conns, raises \in BOOLEAN :
        (numPings' = numPings + 1 /\ phase' = "running"
            /\ OnMessage(c, "ping", raises)) =>
            /\ sent'[c] = Append(sent[c], [type |-> "text", text |-> "pong"])
            /\ \A d \in Conns \ {c} : sent'[d] = sent[d]
            /\ clients' = clients
            /\ readyState' = readyState
            /\ readyState[c] = "OPEN" /\ c \in Range(clients)]_vars

\* A socket was ponged while another one was registered.
C9_Witness ==
    \E c, d \in Range(clients) :
        /\ c # d
        /\ Len(sent[c]) = 2
        /\ sent[c][2] = [type |-> "text", text |-> "pong"]
        /\ Len(sent[d]) = 1

\* C10 as stated: a submission with a missing or an empty payload is
\* answered 400 and nothing is written to any socket (here: with at least
\* one socket registered).
C10_EmptyPayloadRejected ==
    [][\A body \in {"undefined", "{}"}, bad \in SUBSET Conns :
        (Len(clients) > 0 /\ SendMsg(body, bad)) =>
            (http'.status = 400 /\ sent' = sent)]_vars

\* The data of the 'broadcast' envelopes written to c, in the order written.
BroadcastData(c) ==
    LET f == SelectSeq(sent[c], LAMBDA e : e.type = "broadcast")
    IN  [i \in 1..Len(f) |-> f[i].data]

\* C11 as stated: with an invalid zone label every snapshot build returns
\* (a UTC snapshot marked invalid), so once the listen callback has built
\* its snapshot the service is running and goes on welcoming and
\* broadcasting.
C11_InvalidZoneNeverRaises ==
    (~tzValid /\ phase # "starting") =>
        /\ phase = "running"
        /\ ~CreateTimestampThrows
        /\ GetTimezoneInfo.timezone = "UTC"

\* C12: for a non-negative delta, the uptime of a status reply has
\* total_milliseconds equal to the delta, hours < 24, minutes < 60,
\* seconds < 60, all non-negative, and the fields add up to the delta less
\* a remainder below one second; a delta of 7265432 ms reads 0d 2h 1m 5s.
C12_UptimeFields ==
    (http.route = "status" /\ http.status = 200) =>
        LET u     == http.uptime
            delta == http.current[2] - http.start[2]
            sum   == u.days * 86400000 + u.hours * 3600000
                        + u.minutes * 60000 + u.seconds * 1000
        IN  /\ http.start[2] = startTime
            /\ u.total_milliseconds = delta
            /\ delta >= 0 =>
                /\ u.days >= 0
                /\ 0 <= u.hours /\ u.hours < 24
                /\ 0 <= u.minutes /\ u.minutes < 60
                /\ 0 <= u.seconds /\ u.seconds < 60
                /\ sum <= delta /\ delta < sum + 1000
            /\ delta = 7265432 =>
                (u.days = 0 /\ u.hours = 2 /\ u.minutes = 1 /\ u.seconds = 5)

\* A reply for an uptime of more than a day: 1d 1h 1m 1s and 1 ms.
C12_Witness ==
    /\ http.route = "status" /\ http.status = 200
    /\ http.uptime.total_milliseconds = 90061001
    /\ http.uptime.days = 1 /\ http.uptime.hours = 1
    /\ startTime > 0

\* C13: a status request leaves the registry, the start instant, the
\* sockets and everything written to them as they were, and reports as
\* connected_clients the size the registry has at that moment.
C13_StatusIsPureRead ==
    [][\A d \in StatusDelays :
        Status(startTime + d) =>
            /\ clients' = clients
            /\ startTime' = startTime
            /\ sent' = sent
            /\ readyState' = readyState
            /\ phase' = phase
            /\ http'.status = 200
            /\ http'.start[2] = startTime
            /\ http'.connected_clients = Cardinality(Range(clients))]_vars

\* A reply that counts one socket after another one had been removed: an
\* earlier count would have been larger.
C13_Witness ==
    /\ http.route = "status" /\ http.status = 200
    /\ http.connected_clients = 1 /\ Len(clients) = 1
    /\ \E c \in Conns : removed[c] = 1

C15_OtherFramesAreInert ==
    \A c \in Conns :
        (phase = "running" /\ handlers[c] /\ readyState[c] = "OPEN") =>
            \A frame \in Frames \ {"ping"}, raises \in BOOLEAN :
                LET r == MessageHandler(c, frame, raises) IN
                /\ r.sent = sent
                /\ r.clients = clients
                /\ r.phase = "running"
                /\ r.log \in {"text", "JSON", "non-JSON"}
                /\ JsonParseThrows(frame) => r.log = "non-JSON"

\* Two open sockets with their listeners attached, one of which has been
\* written to since its welcome.
C15_Witness ==
    \E c, d \in Range(clients) :
        /\ c # d /\ phase = "running"
        /\ handlers[c] /\ readyState[c] = "OPEN" /\ Len(sent[c]) = 3
        /\ handlers[d] /\ readyState[d] = "OPEN" /\ Len(sent[d]) = 1

\* C16: a call of broadcastMessage writes its envelope behind everything
\* written to a socket before, the envelopes of all earlier calls included;
\* hence two sockets that were sent the envelope of every call so far hold
\* them in one and the same order.
C16_BroadcastsInCallOrder ==
    /\ phase = "running" =>
        \A body \in Bodies, bad \in SUBSET OpenMembers :
            LET r == broadcastMessage(body, bad) IN
            \A c \in Conns :
                \/ r.sent[c] = sent[c]
                \/ r.sent[c] = Append(sent[c],
                                      BroadcastEnvelope(body, CreateTimestamp(Now)))
    /\ \A c, d \in Conns :
        (Len(BroadcastData(c)) = numSends /\ Len(BroadcastData(d)) = numSends) =>
            BroadcastData(c) = BroadcastData(d)

\* Two sockets hold the envelopes of two different payloads, in call order.
C16_Witness ==
    \E c, d \in Conns :
        /\ c # d
        /\ BroadcastData(c) = <<"{}", "hi">>
        /\ BroadcastData(d) = <<"{}", "hi">>

\* C17: whatever the interleaving of connections and submissions, every
\* 'broadcast' envelope written to a socket comes after that socket's
\* 'welcome' envelope.
C17_WelcomeBeforeBroadcast ==
    \A c \in Conns : \A i \in 1..Len(sent[c]) :
        sent[c][i].type = "broadcast" =>
            \E j \in 1..(i - 1) : sent[c][j].type = "welcome"

\* A socket that connected between two broadcasts holds its welcome and
\* the second envelope; an earlier socket holds its welcome and both.
C17_Witness ==
    \E c, d \in Conns :
        /\ c < d
        /\ Len(sent[c]) = 3 /\ Len(sent[d]) = 2
        /\ sent[c][2].type = "broadcast" /\ sent[c][3].type = "broadcast"
        /\ sent[d][1].type = "welcome" /\ sent[d][2].type = "broadcast"

\* C18: a submission during which a write raises is answered 500; the
\* process keeps running, the registry is as it was, nothing written
\* before is lost, the members visited before the failing one keep the
\* envelope they were sent, and the failing socket got nothing.
C18_ErrorAnswered500 ==
    [][\A body \in Bodies, bad \in SUBSET Conns :
        (~Falsy(body) /\ bad # {} /\ SendMsg(body, bad)) =>
            /\ http'.route = "sendmsg" /\ http'.status = 500
            /\ clients' = clients
            /\ phase' = "running"
            /\ \A c \in Conns : sent'[c] = sent[c] \/ Delivered(c)
            /\ \A c \in bad : sent'[c] = sent[c]
            /\ \A i \in 1..Len(clients) :
                (/\ readyState[clients[i]] = "OPEN"
                 /\ \A j \in 1..i : clients[j] \notin bad) =>
                    /\ Delivered(clients[i])
                    /\ NewFrame(clients[i]).type = "broadcast"
                    /\ NewFrame(clients[i]).data = body]_vars

\* A 500 reply after the first of two open members had got the envelope.
C18_Witness ==
    /\ http.route = "sendmsg" /\ http.status = 500
    /\ numSends = 1 /\ Len(clients) = 2
    /\ readyState[clients[1]] = "OPEN" /\ HasBroadcast(clients[1])
    /\ readyState[clients[2]] = "OPEN" /\ ~HasBroadcast(clients[2])

\* C19 as stated: every socket in the registry has its 'close' and 'error'
\* listeners attached once its connection listener has ended, also when
\* the welcome could not be built or written.
C19_RegisteredHaveHandlers ==
    \A c \in Range(clients) : handlers[c]

\* C20: one call of broadcastMessage writes to no member whose readyState
\* is not OPEN, skipping such a member raises nothing (the reply is a
\* success unless the write to an OPEN member raises), and the number of
\* sockets written to is at most the clientCount of the reply.
C20_SentAtMostCount ==
    phase = "running" =>
        \A body \in Bodies, bad \in SUBSET OpenMembers : ~Falsy(body) =>
            LET r == SendmsgRoute(body, bad) IN
            /\ \A c \in Conns : readyState[c] # "OPEN" => r.sent[c] = sent[c]
            /\ bad = {} => r.http.status = 200
            /\ r.http.status = 200 =>
                Cardinality(WrittenTo(r.sent)) <= r.http.clientCount

\* A success reply counting one member, the CLOSING one, with nothing sent.
C20_Witness ==
    /\ http.route = "sendmsg" /\ http.status = 200 /\ http.clientCount = 1
    /\ numSends = 1 /\ Len(clients) = 1
    /\ readyState[clients[1]] = "CLOSING"
    /\ \A c \in Conns : ~HasBroadcast(c)

====
